---- MODULE Spec2Model ----
(***************************************************************************)
(* Model of the header chain engine of go-quai (core/headerchain.go).      *)
(*                                                                         *)
(* A header is identified by its hash; its number and parent hash at the   *)
(* network-context tier are fixed by the hash.  The header database is the *)
(* set of hashes whose header record (and hash->number entry) is           *)
(* persisted.  The LRU caches are far larger (512, 2048) than the header   *)
(* universe of the model, so they never evict: the header cache is the set *)
(* of hashes it holds, the number cache the set of its <<hash, number>>    *)
(* entries.                                                                *)
(***************************************************************************)
EXTENDS Integers, Sequences, FiniteSets, TLC

VARIABLES headerDb, canonical, headerCache, numberCache, heads,
          currentHeader, currentHeaderHash, pc, appends, lastOp,
          chainHeadFeed, lockstep, setters, json

vars == <<headerDb, canonical, headerCache, numberCache, heads,
          currentHeader, currentHeaderHash, pc, appends, lastOp,
          chainHeadFeed, lockstep, setters, json>>

----------------------------------------------------------------------------
(* Bounds of the model *)

\* the number of Append calls explored in one behaviour
MaxAppends == 4

\* the number of Append calls explored before the ancestor queries
MaxAncestorAppends == 1

\* the largest budget (*maxNonCanonical) handed to GetAncestor
MaxBudget == 2

----------------------------------------------------------------------------
(* The header universe: the blocks callers hand to the engine.            *)
(*                                                                        *)
(*      G(1) <- A(2) <- B(3) <- C(4)                                      *)
(*                 ^--- X(5)                                              *)
(*      W(7) <- O(6)            W is never handed to the engine           *)

Headers == {1, 2, 3, 4, 5, 6}

Genesis == 1

\* common.Hash{}: the zero hash
ZeroHash == 0

\* a nil *types.Header, and a nil *uint64
Nil == -1

\* math.MaxUint64 = 2^64 - 1, the value of uint64(0) - 1.  TLC's integers are
\* 32 bits wide, so the largest of them stands for it; no header number of the
\* model comes near it.
MaxUint64 == 2147483647

\* the hashes a caller may ask about: the universe, the zero hash and the
\* hash W of a header that is never stored
Hashes == Headers \cup {ZeroHash, 7}

\* header.Number64(): the number at the network-context tier
Number64(h) ==
    CASE h = 1 -> 0
      [] h = 2 -> 1
      [] h = 3 -> 2
      [] h = 4 -> 3
      [] h = 5 -> 2
      [] h = 6 -> 2

\* header.Parent(), header.ParentHash[types.QuaiNetworkContext]
ParentHash(h) ==
    CASE h = 1 -> ZeroHash
      [] h = 2 -> 1
      [] h = 3 -> 2
      [] h = 4 -> 3
      [] h = 5 -> 2
      [] h = 6 -> 7

MaxNumber == 3

Numbers == 0..MaxNumber

\* uint64 subtraction of one
Dec(n) == IF n = 0 THEN MaxUint64 ELSE n - 1

----------------------------------------------------------------------------
(* rawdb: the typed facade over the key-value store *)

\* the head queue's bound
maxHeadsQueueLimit == 3

ReadHeader(db, hash, number) ==
    IF hash \in db /\ Number64(hash) = number THEN hash ELSE Nil

ReadHeaderNumber(db, hash) ==
    IF hash \in db THEN Number64(hash) ELSE Nil

HasHeaderDb(db, hash, number) == ReadHeader(db, hash, number) # Nil

WriteHeader(db, header) == db \cup {header}

DeleteHeader(db, hash, number) ==
    IF hash \in Headers /\ Number64(hash) = number THEN db \ {hash} ELSE db

ReadCanonicalHash(number) ==
    IF number \in DOMAIN canonical THEN canonical[number] ELSE ZeroHash

----------------------------------------------------------------------------
(* Reads through the caches.  Every read returns its result together with *)
(* the cache it leaves behind.                                            *)

\* numberCache.Contains, numberCache.Get and numberCache.Add
Contains(ncache, hash) == \E e \in ncache : e[1] = hash

Get(ncache, hash) == (CHOOSE e \in ncache : e[1] = hash)[2]

Add(ncache, hash, number) == { e \in ncache : e[1] # hash } \cup {<<hash, number>>}

\* GetBlockNumber adding the number before the header's to the cache
GetBlockNumber_cachesParentNumber(ncache, db, hash) ==
    IF Contains(ncache, hash)
    THEN [number |-> Get(ncache, hash), ncache |-> ncache]
    ELSE LET number == ReadHeaderNumber(db, hash)
         IN  [number |-> number,
              ncache |-> IF number # Nil THEN Add(ncache, hash, Dec(number)) ELSE ncache]

\* GetBlockNumber: number cache first, then the store; a hit in the store
\* is added to the cache
GetBlockNumber(ncache, db, hash) ==
    IF Contains(ncache, hash)
    THEN [number |-> Get(ncache, hash), ncache |-> ncache]
    ELSE LET number == ReadHeaderNumber(db, hash)
         IN  [number |-> number,
              ncache |-> IF number # Nil THEN Add(ncache, hash, number) ELSE ncache]

\* GetHeader: header cache first, then the store under (hash, number)
GetHeader(hcache, db, hash, number) ==
    IF hash \in hcache
    THEN [header |-> hash, hcache |-> hcache]
    ELSE LET header == ReadHeader(db, hash, number)
         IN  [header |-> header,
              hcache |-> IF header # Nil THEN hcache \cup {hash} ELSE hcache]

\* GetHeaderByHash looking the header up under the number before the one
\* it resolved
GetHeaderByHash_wrongNumber(ncache, hcache, db, hash) ==
    LET n == GetBlockNumber(ncache, db, hash)
    IN  IF n.number = Nil
        THEN [header |-> Nil, ncache |-> n.ncache, hcache |-> hcache]
        ELSE LET g == GetHeader(hcache, db, hash, Dec(n.number))
             IN  [header |-> g.header, ncache |-> n.ncache, hcache |-> g.hcache]

\* GetHeaderByHash: resolves the number, then the header
GetHeaderByHash(ncache, hcache, db, hash) ==
    LET n == GetBlockNumber(ncache, db, hash)
    IN  IF n.number = Nil
        THEN [header |-> Nil, ncache |-> n.ncache, hcache |-> hcache]
        ELSE LET g == GetHeader(hcache, db, hash, n.number)
             IN  [header |-> g.header, ncache |-> n.ncache, hcache |-> g.hcache]

\* HasHeader: true when either cache holds the hash or the store has it
HasHeader(ncache, hcache, db, hash, number) ==
    IF Contains(ncache, hash) \/ hash \in hcache
    THEN TRUE
    ELSE HasHeaderDb(db, hash, number)

----------------------------------------------------------------------------
(* trim and trimBranch *)

RECURSIVE trimWalk_deletesCommon(_, _, _, _, _)
\* the loop of trim with the test for the common header made after the
\* delete
trimWalk_deletesCommon(hcache, db, commonHeader, parent, trimmed) ==
    LET db1 == DeleteHeader(db, parent, Number64(parent))
        g   == GetHeader(hcache, db1, ParentHash(parent), Dec(Number64(parent)))
    IN  IF parent = commonHeader \/ g.header = Nil
        THEN [db |-> db1, hcache |-> g.hcache, trimmed |-> Append(trimmed, parent)]
        ELSE trimWalk_deletesCommon(g.hcache, db1, commonHeader, g.header,
                                    Append(trimmed, parent))

RECURSIVE trimWalk(_, _, _, _, _)
\* the loop of trim: parent is the header being walked, trimmed the headers
\* handed to the executor's Trim so far
trimWalk(hcache, db, commonHeader, parent, trimmed) ==
    IF parent = commonHeader
    THEN [db |-> db, hcache |-> hcache, trimmed |-> trimmed]
    ELSE LET db1 == DeleteHeader(db, parent, Number64(parent))
             g   == GetHeader(hcache, db1, ParentHash(parent), Dec(Number64(parent)))
         IN  IF g.header = Nil
             THEN [db |-> db1, hcache |-> g.hcache, trimmed |-> Append(trimmed, parent)]
             ELSE trimWalk(g.hcache, db1, commonHeader, g.header, Append(trimmed, parent))

trim(hcache, db, commonHeader, startHeader) ==
    trimWalk(hcache, db, commonHeader, startHeader, <<>>)

RECURSIVE equalize(_, _, _, _)
\* the first loop of trimBranch: newHeader is walked back to startIndex; a
\* parent that cannot be loaded leaves newHeader nil, and the next
\* newHeader.Number64() dereferences it
equalize(hcache, db, newHeader, startIndex) ==
    IF newHeader = Nil
    THEN [kind |-> "panic", header |-> Nil, hcache |-> hcache]
    ELSE IF Number64(newHeader) = startIndex
    THEN [kind |-> "ok", header |-> newHeader, hcache |-> hcache]
    ELSE LET g == GetHeader(hcache, db, ParentHash(newHeader), Dec(Number64(newHeader)))
         IN  equalize(g.hcache, db, g.header, startIndex)

\* trimBranch trimming from the new tip instead of from the old one
trimBranch_trimsNew(hcache, db, oldHeader, newHeader) ==
    LET eq == equalize(hcache, db, newHeader, Number64(oldHeader))
    IN  IF eq.kind = "panic"
        THEN [kind |-> "panic", db |-> db, hcache |-> eq.hcache, trimmed |-> <<>>]
        ELSE IF oldHeader = eq.header
        THEN LET t == trim(eq.hcache, db, oldHeader, newHeader)
             IN  [kind |-> "ok", db |-> t.db, hcache |-> t.hcache, trimmed |-> t.trimmed]
        ELSE [kind |-> "invalid old chain", db |-> db, hcache |-> eq.hcache,
              trimmed |-> <<>>]

\* trimBranch: kind is "ok" (returned nil), "invalid old chain" or
\* "invalid new chain" (returned that error), "panic" (nil dereference in the
\* first loop) or "loop": in the second loop the stepped-back headers are
\* assigned to fresh variables (oldHeader := ..., newBlock := ...), so
\* oldHeader and newHeader never change and the loop repeats its first
\* iteration for ever once both parents load
trimBranch(hcache, db, oldHeader, newHeader) ==
    LET startIndex  == Number64(oldHeader)
        startHeader == oldHeader
        eq          == equalize(hcache, db, newHeader, startIndex)
    IN  IF eq.kind = "panic"
        THEN [kind |-> "panic", db |-> db, hcache |-> eq.hcache, trimmed |-> <<>>]
        ELSE IF oldHeader = eq.header
        THEN LET commonHeader == oldHeader
                 t == trim(eq.hcache, db, commonHeader, startHeader)
             IN  [kind |-> "ok", db |-> t.db, hcache |-> t.hcache, trimmed |-> t.trimmed]
        ELSE LET o == GetHeader(eq.hcache, db, ParentHash(oldHeader), Dec(Number64(oldHeader)))
             IN  IF o.header = Nil
                 THEN [kind |-> "invalid old chain", db |-> db, hcache |-> o.hcache,
                       trimmed |-> <<>>]
                 ELSE LET n == GetHeader(o.hcache, db, ParentHash(eq.header),
                                         Dec(Number64(eq.header)))
                      IN  IF n.header = Nil
                          THEN [kind |-> "invalid new chain", db |-> db,
                                hcache |-> n.hcache, trimmed |-> <<>>]
                          ELSE [kind |-> "loop", db |-> db, hcache |-> n.hcache,
                                trimmed |-> <<>>]

----------------------------------------------------------------------------
(* The head queue.  An entry is the queued header and, as history, the    *)
(* count of the Append call that pushed it.                               *)

\* a comparator with <= for <
Less_orEqual(a, b) == Number64(a.header) <= Number64(b.header)

\* the comparator handed to sort.Slice
Less(a, b) == Number64(a.header) < Number64(b.header)

Swap(s, i, j) == [s EXCEPT ![i] = s[j], ![j] = s[i]]

RECURSIVE sift(_, _)
\* the inner loop of the insertion sort: s[j] moves left while it is less
\* than its left neighbour
sift(s, j) ==
    IF j > 1 /\ Less(s[j], s[j - 1]) THEN sift(Swap(s, j, j - 1), j - 1) ELSE s

RECURSIVE insertionSort(_, _)
insertionSort(s, i) ==
    IF i > Len(s) THEN s ELSE insertionSort(sift(s, i), i + 1)

\* sort.Slice on a slice of fewer than 12 elements is an insertion sort
SortSlice(s) == insertionSort(s, 2)

----------------------------------------------------------------------------
(* GetAncestor *)

RECURSIVE getAncestorLoop_budgetFirst(_, _, _, _, _, _)
\* the loop of GetAncestor with the budget tested before the canonical chain
getAncestorLoop_budgetFirst(hcache, db, hash, number, ancestor, budget) ==
    IF ancestor = 0
    THEN [hash |-> hash, number |-> number, budget |-> budget, hcache |-> hcache]
    ELSE IF budget = 0
    THEN [hash |-> ZeroHash, number |-> 0, budget |-> budget, hcache |-> hcache]
    ELSE IF ReadCanonicalHash(number) = hash
    THEN [hash |-> ReadCanonicalHash(number - ancestor), number |-> number - ancestor,
          budget |-> budget, hcache |-> hcache]
    ELSE LET g == GetHeader(hcache, db, hash, number)
         IN  IF g.header = Nil
             THEN [hash |-> ZeroHash, number |-> 0, budget |-> budget - 1,
                   hcache |-> g.hcache]
             ELSE getAncestorLoop_budgetFirst(g.hcache, db, ParentHash(g.header),
                                              Dec(number), ancestor - 1, budget - 1)

RECURSIVE getAncestorLoop_freeLoad(_, _, _, _, _, _)
\* the loop of GetAncestor charging the budget only for a header it loaded
getAncestorLoop_freeLoad(hcache, db, hash, number, ancestor, budget) ==
    IF ancestor = 0
    THEN [hash |-> hash, number |-> number, budget |-> budget, hcache |-> hcache]
    ELSE IF ReadCanonicalHash(number) = hash
    THEN [hash |-> ReadCanonicalHash(number - ancestor), number |-> number - ancestor,
          budget |-> budget, hcache |-> hcache]
    ELSE IF budget = 0
    THEN [hash |-> ZeroHash, number |-> 0, budget |-> budget, hcache |-> hcache]
    ELSE LET g == GetHeader(hcache, db, hash, number)
         IN  IF g.header = Nil
             THEN [hash |-> ZeroHash, number |-> 0, budget |-> budget,
                   hcache |-> g.hcache]
             ELSE getAncestorLoop_freeLoad(g.hcache, db, ParentHash(g.header),
                                           Dec(number), ancestor - 1, budget - 1)

RECURSIVE getAncestorLoop(_, _, _, _, _, _)
\* the loop of GetAncestor; budget is *maxNonCanonical
getAncestorLoop(hcache, db, hash, number, ancestor, budget) ==
    IF ancestor = 0
    THEN [hash |-> hash, number |-> number, budget |-> budget, hcache |-> hcache]
    ELSE IF ReadCanonicalHash(number) = hash
    THEN [hash |-> ReadCanonicalHash(number - ancestor), number |-> number - ancestor,
          budget |-> budget, hcache |-> hcache]
    ELSE IF budget = 0
    THEN [hash |-> ZeroHash, number |-> 0, budget |-> budget, hcache |-> hcache]
    ELSE LET g == GetHeader(hcache, db, hash, number)
         IN  IF g.header = Nil
             THEN [hash |-> ZeroHash, number |-> 0, budget |-> budget - 1,
                   hcache |-> g.hcache]
             ELSE getAncestorLoop(g.hcache, db, ParentHash(g.header), Dec(number),
                                  ancestor - 1, budget - 1)

\* GetAncestor refusing ancestor >= number
GetAncestor_refusesEqual(hcache, db, hash, number, ancestor, budget) ==
    IF ancestor >= number
    THEN [hash |-> ZeroHash, number |-> 0, budget |-> budget, hcache |-> hcache]
    ELSE IF ancestor = 1
    THEN LET g == GetHeader(hcache, db, hash, number)
         IN  IF g.header # Nil
             THEN [hash |-> ParentHash(g.header), number |-> number - 1,
                   budget |-> budget, hcache |-> g.hcache]
             ELSE [hash |-> ZeroHash, number |-> 0, budget |-> budget,
                   hcache |-> g.hcache]
    ELSE getAncestorLoop(hcache, db, hash, number, ancestor, budget)

\* GetAncestor whose parent fast path keeps the number
GetAncestor_parentKeepsNumber(hcache, db, hash, number, ancestor, budget) ==
    IF ancestor > number
    THEN [hash |-> ZeroHash, number |-> 0, budget |-> budget, hcache |-> hcache]
    ELSE IF ancestor = 1
    THEN LET g == GetHeader(hcache, db, hash, number)
         IN  IF g.header # Nil
             THEN [hash |-> ParentHash(g.header), number |-> number,
                   budget |-> budget, hcache |-> g.hcache]
             ELSE [hash |-> ZeroHash, number |-> 0, budget |-> budget,
                   hcache |-> g.hcache]
    ELSE getAncestorLoop(hcache, db, hash, number, ancestor, budget)

GetAncestor(hcache, db, hash, number, ancestor, budget) ==
    IF ancestor > number
    THEN [hash |-> ZeroHash, number |-> 0, budget |-> budget, hcache |-> hcache]
    ELSE IF ancestor = 1
    THEN LET g == GetHeader(hcache, db, hash, number)
         IN  IF g.header # Nil
             THEN [hash |-> ParentHash(g.header), number |-> number - 1,
                   budget |-> budget, hcache |-> g.hcache]
             ELSE [hash |-> ZeroHash, number |-> 0, budget |-> budget,
                   hcache |-> g.hcache]
    ELSE getAncestorLoop(hcache, db, hash, number, ancestor, budget)

----------------------------------------------------------------------------
(* The state after construction *)

\* the canonical chains the database may hold when the engine is constructed:
\* a fresh database, or one that already holds A
CanonicalChains == { <<1>>, <<1, 2>> }

\* the record of the last call: its arguments and what it returned
Call(op, hash, number, ancestor, budget, res, rhash, rnumber, rbudget) ==
    [op |-> op, hash |-> hash, number |-> number, ancestor |-> ancestor,
     budget |-> budget, res |-> res, rhash |-> rhash, rnumber |-> rnumber,
     rbudget |-> rbudget, trim |-> "none", max |-> 0, chain |-> <<>>,
     location |-> <<>>, effects |-> <<>>]

\* trimBranch is not in its second loop
NoLockstep == [oldHeader |-> Nil, newHeader |-> Nil, iterations |-> 0]

\* the goroutines that call SetCurrentHeader concurrently
Threads == {1, 2}

\* a goroutine that is not inside SetCurrentHeader
Returned == [at |-> "returned", head |-> Nil]

\* no header has been handed to MarshalJSON
NoJSON == [stage |-> "none"]

\* NewHeaderChain over a database holding the canonical chain `chain`, the
\* headers `side` off it, and the head block hash `head`
NewHeaderChain(chain, side, head) ==
    LET db      == { chain[i] : i \in 1..Len(chain) } \cup side
        genesis == GetHeader({}, db, chain[1], 0)
        chead   == GetHeaderByHash({}, genesis.hcache, db, head)
    IN  /\ headerDb = db
        /\ canonical = [n \in Numbers |-> IF n < Len(chain) THEN chain[n + 1] ELSE ZeroHash]
        /\ heads = <<>>
        /\ IF head # ZeroHash /\ chead.header # Nil
           THEN /\ currentHeader = chead.header
                /\ currentHeaderHash = chead.header
                /\ headerCache = chead.hcache
                /\ numberCache = chead.ncache
           ELSE /\ currentHeader = genesis.header
                /\ currentHeaderHash = genesis.header
                /\ headerCache = genesis.hcache
                /\ numberCache = {}
        /\ pc = "idle"
        /\ appends = 0
        /\ lastOp = Call("NewHeaderChain", ZeroHash, 0, 0, 0, "Ok", ZeroHash, 0, 0)
        /\ chainHeadFeed = <<>>
        /\ lockstep = NoLockstep
        /\ setters = [t \in Threads |-> Returned]

Init ==
    \E chain \in CanonicalChains :
        \E head \in {ZeroHash, chain[Len(chain)]} :
            NewHeaderChain(chain, {}, head) /\ json = NoJSON

\* the databases of the ancestor queries: the canonical chain and the
\* headers stored off it
AncestorDatabases ==
    { [chain |-> <<1>>,          side |-> {2, 3}],
      [chain |-> <<1>>,          side |-> {6}],
      [chain |-> <<1, 2, 3, 4>>, side |-> {5}],
      [chain |-> <<1, 2, 5>>,    side |-> {3, 4}],
      [chain |-> <<1, 2, 5>>,    side |-> {4}] }

InitAncestor ==
    \E d \in AncestorDatabases :
        \E head \in {ZeroHash, d.chain[Len(d.chain)]} :
            NewHeaderChain(d.chain, d.side, head) /\ json = NoJSON

----------------------------------------------------------------------------
(* Append *)

\* the heads queue after the push and the sort
pushHead(q, header, count) ==
    SortSlice(Append(q, [header |-> header, pushed |-> count]))

\* a dequeue that drops nothing
dequeue_none(q) == q

\* a dequeue that drops the newest tip
dequeue_newest(q) == SubSeq(q, 1, Len(q) - 1)

\* hc.heads = hc.heads[1:]
dequeue(q) == Tail(q)

\* the second half of Append with the error of trimBranch ignored
enqueue_ignoresTrimError(q, hcache, db1, header, count) ==
    IF Len(q) = maxHeadsQueueLimit
    THEN LET t == trimBranch(hcache, db1, q[1].header, q[maxHeadsQueueLimit].header)
         IN  [res |-> IF t.kind \in {"panic", "loop"} THEN t.kind ELSE "Ok",
              db |-> t.db, hcache |-> t.hcache,
              heads |-> IF t.kind \in {"panic", "loop"}
                        THEN q
                        ELSE pushHead(dequeue(q), header, count),
              trim |-> t.kind]
    ELSE [res |-> "Ok", db |-> db1, hcache |-> hcache,
          heads |-> pushHead(q, header, count), trim |-> "none"]

\* the second half of Append, after the header is written (db1) and the
\* executor has accepted the block: trims and dequeues when the queue is
\* full, then pushes.  trim is what trimBranch did ("none": not called).
enqueue(q, hcache, db1, header, count) ==
    IF Len(q) = maxHeadsQueueLimit
    THEN LET t == trimBranch(hcache, db1, q[1].header, q[maxHeadsQueueLimit].header)
         IN  IF t.kind = "ok"
             THEN [res |-> "Ok", db |-> t.db, hcache |-> t.hcache,
                   heads |-> pushHead(dequeue(q), header, count), trim |-> t.kind]
             ELSE [res |-> t.kind, db |-> t.db, hcache |-> t.hcache,
                   heads |-> q, trim |-> t.kind]
    ELSE [res |-> "Ok", db |-> db1, hcache |-> hcache,
          heads |-> pushHead(q, header, count), trim |-> "none"]

\* Append(block) with the outcomes of batch.Write and of the executor's
\* Append given.  res is "Ok", the error returned, "panic", or "loop" when
\* the call never returns.
appendBlock(header, batchOk, execOk) ==
    IF ~batchOk
    THEN [res |-> "batch write failed", db |-> headerDb, hcache |-> headerCache,
          heads |-> heads, trim |-> "none"]
    ELSE LET db1 == WriteHeader(headerDb, header)
         IN  IF ~execOk
             THEN [res |-> "executor failed",
                   db |-> DeleteHeader(db1, header, Number64(header)),
                   hcache |-> headerCache, heads |-> heads, trim |-> "none"]
             ELSE enqueue(heads, headerCache, db1, header, appends + 1)

\* oldHeader and newHeader as trimBranch enters its second loop
secondLoop(hcache, db, oldHeader, newHeader) ==
    [oldHeader  |-> oldHeader,
     newHeader  |-> equalize(hcache, db, newHeader, Number64(oldHeader)).header,
     iterations |-> 0]

\* Append making the appended header the current header
CallAppend_movesHead(header, batchOk, execOk) ==
    /\ pc = "idle"
    /\ appends < MaxAppends
    /\ LET r == appendBlock(header, batchOk, execOk)
       IN  /\ headerDb' = r.db
           /\ headerCache' = r.hcache
           /\ heads' = r.heads
           /\ pc' = IF r.res \in {"panic", "loop"} THEN r.res ELSE "idle"
           /\ lastOp' = [Call("Append", header, 0, 0, 0, r.res, ZeroHash, 0, 0)
                          EXCEPT !.trim = r.trim]
           /\ lockstep' = IF r.res = "loop"
                          THEN secondLoop(r.hcache, r.db, heads[1].header,
                                          heads[maxHeadsQueueLimit].header)
                          ELSE lockstep
    /\ appends' = appends + 1
    /\ currentHeader' = IF lastOp'.res = "Ok" THEN header ELSE currentHeader
    /\ currentHeaderHash' = IF lastOp'.res = "Ok" THEN header ELSE currentHeaderHash
    /\ UNCHANGED <<canonical, numberCache>>
    /\ UNCHANGED <<chainHeadFeed, setters, json>>

CallAppend(header, batchOk, execOk) ==
    /\ pc = "idle"
    /\ appends < MaxAppends
    /\ LET r == appendBlock(header, batchOk, execOk)
       IN  /\ headerDb' = r.db
           /\ headerCache' = r.hcache
           /\ heads' = r.heads
           /\ pc' = IF r.res \in {"panic", "loop"} THEN r.res ELSE "idle"
           /\ lastOp' = [Call("Append", header, 0, 0, 0, r.res, ZeroHash, 0, 0)
                          EXCEPT !.trim = r.trim]
           /\ lockstep' = IF r.res = "loop"
                          THEN secondLoop(r.hcache, r.db, heads[1].header,
                                          heads[maxHeadsQueueLimit].header)
                          ELSE lockstep
    /\ appends' = appends + 1
    /\ UNCHANGED <<canonical, numberCache, currentHeader, currentHeaderHash>>
    /\ UNCHANGED <<chainHeadFeed, setters, json>>

----------------------------------------------------------------------------
(* The other calls.  None of them takes headermu, so they also run while  *)
(* an Append is stuck in trimBranch.                                      *)

Running == pc \in {"idle", "loop"}

SetCurrentHeader(head) ==
    /\ Running
    /\ currentHeader' = head
    /\ currentHeaderHash' = head
    /\ lastOp' = Call("SetCurrentHeader", head, 0, 0, 0, "Ok", ZeroHash, 0, 0)
    /\ UNCHANGED <<headerDb, canonical, headerCache, numberCache, heads, pc, appends>>
    /\ UNCHANGED <<chainHeadFeed, lockstep, setters, json>>

CallGetBlockNumber(hash) ==
    /\ Running
    /\ LET r == GetBlockNumber(numberCache, headerDb, hash)
       IN  /\ numberCache' = r.ncache
           /\ lastOp' = Call("GetBlockNumber", hash, 0, 0, 0, "Ok", ZeroHash, r.number, 0)
    /\ UNCHANGED <<headerDb, canonical, headerCache, heads, currentHeader,
                   currentHeaderHash, pc, appends>>
    /\ UNCHANGED <<chainHeadFeed, lockstep, setters, json>>

CallGetHeader(hash, number) ==
    /\ Running
    /\ LET r == GetHeader(headerCache, headerDb, hash, number)
       IN  /\ headerCache' = r.hcache
           /\ lastOp' = Call("GetHeader", hash, number, 0, 0, "Ok", r.header, 0, 0)
    /\ UNCHANGED <<headerDb, canonical, numberCache, heads, currentHeader,
                   currentHeaderHash, pc, appends>>
    /\ UNCHANGED <<chainHeadFeed, lockstep, setters, json>>

CallGetHeaderByHash(hash) ==
    /\ Running
    /\ LET r == GetHeaderByHash(numberCache, headerCache, headerDb, hash)
       IN  /\ numberCache' = r.ncache
           /\ headerCache' = r.hcache
           /\ lastOp' = Call("GetHeaderByHash", hash, 0, 0, 0, "Ok", r.header, 0, 0)
    /\ UNCHANGED <<headerDb, canonical, heads, currentHeader, currentHeaderHash,
                   pc, appends>>
    /\ UNCHANGED <<chainHeadFeed, lockstep, setters, json>>

CallGetAncestor(hash, number, ancestor, budget) ==
    /\ Running
    /\ LET r == GetAncestor(headerCache, headerDb, hash, number, ancestor, budget)
       IN  /\ headerCache' = r.hcache
           /\ lastOp' = Call("GetAncestor", hash, number, ancestor, budget, "Ok",
                             r.hash, r.number, r.budget)
    /\ UNCHANGED <<headerDb, canonical, numberCache, heads, currentHeader,
                   currentHeaderHash, pc, appends>>
    /\ UNCHANGED <<chainHeadFeed, lockstep, setters, json>>

\* the outcomes of batch.Write and of the executor's Append
Outcomes == { <<FALSE, TRUE>>, <<TRUE, FALSE>>, <<TRUE, TRUE>> }

\* the blocks handed to Append
Blocks == {2, 3, 4, 5, 6}

\* the caller reads back the block it has just handed to Append
ReadBack ==
    /\ lastOp.op = "Append"
    /\ CallGetHeaderByHash(lastOp.hash)

Next ==
    \/ \E header \in Blocks, o \in Outcomes : CallAppend(header, o[1], o[2])
    \/ ReadBack

Spec == Init /\ [][Next]_vars

\* B or X is appended, accepted or rejected by the executor; ancestors are
\* asked for before and after it
NextAncestor ==
    \/ \E header \in {3, 5}, execOk \in BOOLEAN :
           /\ appends < MaxAncestorAppends
           /\ CallAppend(header, TRUE, execOk)
    \/ \E hash \in Hashes, number \in Numbers, ancestor \in Numbers,
          budget \in 0..MaxBudget :
           /\ lastOp.op # "GetAncestor"
           /\ CallGetAncestor(hash, number, ancestor, budget)

SpecAncestor == InitAncestor /\ [][NextAncestor]_vars

----------------------------------------------------------------------------
(* Properties *)

\* the step is a call of Append
AppendStep == lastOp'.op = "Append" /\ appends' = appends + 1

\* the errors trimBranch returns
TrimErrors == {"invalid old chain", "invalid new chain"}

RECURSIVE Path(_)
\* a header and its ancestors along the parent hashes
Path(h) == IF h \in Headers THEN {h} \cup Path(ParentHash(h)) ELSE {}

\* what GetHeaderByHash(hash) returns in the current state
HeaderByHashNow(hash) == GetHeaderByHash(numberCache, headerCache, headerDb, hash).header

\* C1: when Append(b) has returned Ok, GetHeaderByHash(b.hash) issued right
\* after it returns b's header.
C1_AppendThenGetHeaderByHash ==
    (lastOp.op = "Append" /\ lastOp.res = "Ok") => HeaderByHashNow(lastOp.hash) = lastOp.hash

\* Append(b) has returned Ok on a full queue and b's header, in no cache, is
\* read from the store
C1_Witness ==
    /\ lastOp.op = "Append" /\ lastOp.res = "Ok" /\ lastOp.trim = "ok"
    /\ lastOp.hash \notin headerCache
    /\ ~Contains(numberCache, lastOp.hash)
    /\ HeaderByHashNow(lastOp.hash) = lastOp.hash

\* C2: the head queue never holds more than maxHeadsQueueLimit headers.
C2_HeadsBounded == Len(heads) <= maxHeadsQueueLimit

\* an Append on a full queue has returned Ok and the queue is full again
C2_Witness ==
    /\ lastOp.op = "Append" /\ lastOp.res = "Ok" /\ lastOp.trim = "ok"
    /\ Len(heads) = maxHeadsQueueLimit

C4_ExecutorFailureCompensates ==
    [][(AppendStep /\ lastOp'.res = "executor failed")
          => /\ GetHeaderByHash(numberCache', headerCache', headerDb', lastOp'.hash).header
                    = Nil
             /\ heads' = heads]_vars

\* C5: every header in the head queue is present in the header store.
C5_QueuedHeadersPersisted ==
    \A i \in 1..Len(heads) : heads[i].header \in headerDb

\* C6: on a full queue the oldest tip leaves the queue only when trimBranch
\* has returned nil; when trimBranch returns an error, Append returns that
\* error and the queue is as it was.
C6_DequeueAfterTrimBranch ==
    [][(AppendStep /\ Len(heads) = maxHeadsQueueLimit)
          => /\ lastOp'.trim \in TrimErrors => (lastOp'.res = lastOp'.trim /\ heads' = heads)
             /\ heads' # heads => lastOp'.trim = "ok"]_vars

\* Append on a full queue has returned the error of trimBranch
C6_Witness ==
    /\ lastOp.op = "Append" /\ lastOp.trim \in TrimErrors /\ lastOp.res = lastOp.trim
    /\ Len(heads) = maxHeadsQueueLimit

AncestorCall == lastOp.op = "GetAncestor"

\* C8: GetAncestor(h, n, 0, budget) returns (h, n) and leaves the budget as
\* it was.
C8_AncestorZero ==
    (AncestorCall /\ lastOp.ancestor = 0)
        => /\ lastOp.rhash = lastOp.hash
           /\ lastOp.rnumber = lastOp.number
           /\ lastOp.rbudget = lastOp.budget

\* GetAncestor(h, 0, 0, budget) has returned, for a hash with no header and
\* a budget left
C8_Witness ==
    /\ AncestorCall /\ lastOp.ancestor = 0 /\ lastOp.number = 0
    /\ lastOp.hash = 7 /\ lastOp.budget > 0
    /\ lastOp.rhash = 7 /\ lastOp.rbudget = lastOp.budget

\* GetHeader(h, n) finds the header of the last call's arguments
LastHeaderPresent ==
    GetHeader(headerCache, headerDb, lastOp.hash, lastOp.number).header # Nil

\* C9 as claimed: for every header GetHeader(h, n) finds, the genesis header
\* at n = 0 included, GetAncestor(h, n, 1, budget) returns (parent hash, n - 1).
C9_AncestorOneAsClaimed ==
    (AncestorCall /\ lastOp.ancestor = 1 /\ LastHeaderPresent)
        => /\ lastOp.rhash = ParentHash(lastOp.hash)
           /\ lastOp.rnumber = lastOp.number - 1

\* C9 amended: for every header GetHeader(h, n) finds with n >= 1,
\* GetAncestor(h, n, 1, budget) returns (parent hash, n - 1); at n = 0 it
\* returns (zero hash, 0).  The budget is as it was.
C9_AncestorOne ==
    (AncestorCall /\ lastOp.ancestor = 1 /\ LastHeaderPresent)
        => /\ lastOp.rbudget = lastOp.budget
           /\ lastOp.number >= 1
                  => /\ lastOp.rhash = ParentHash(lastOp.hash)
                     /\ lastOp.rnumber = lastOp.number - 1
           /\ lastOp.number = 0
                  => /\ lastOp.rhash = ZeroHash
                     /\ lastOp.rnumber = 0

\* GetAncestor(h, n, 1, budget) has returned the parent of a stored header
\* that is not the genesis header
C9_Witness ==
    /\ AncestorCall /\ lastOp.ancestor = 1 /\ LastHeaderPresent
    /\ lastOp.number >= 1
    /\ lastOp.rhash \in Headers
    /\ lastOp.rnumber = lastOp.number - 1

\* C10: when (hash, number) is on the canonical chain and
\* 2 <= ancestor <= number, GetAncestor returns
\* (canonical[number - ancestor], number - ancestor) and leaves the budget as
\* it was, also when the budget is 0.
C10_CanonicalJump ==
    (/\ AncestorCall
     /\ lastOp.hash \in Headers
     /\ ReadCanonicalHash(lastOp.number) = lastOp.hash
     /\ 2 <= lastOp.ancestor
     /\ lastOp.ancestor <= lastOp.number)
        => /\ lastOp.rhash = ReadCanonicalHash(lastOp.number - lastOp.ancestor)
           /\ lastOp.rnumber = lastOp.number - lastOp.ancestor
           /\ lastOp.rbudget = lastOp.budget

\* GetAncestor has jumped from a canonical header to a canonical ancestor
\* with a budget of 0
C10_Witness ==
    /\ AncestorCall
    /\ lastOp.hash \in Headers
    /\ ReadCanonicalHash(lastOp.number) = lastOp.hash
    /\ 2 <= lastOp.ancestor
    /\ lastOp.ancestor <= lastOp.number
    /\ lastOp.budget = 0
    /\ lastOp.rhash \in Headers
    /\ lastOp.rhash = ReadCanonicalHash(lastOp.number - lastOp.ancestor)

RECURSIVE NthParent(_, _)
\* the hash i parent steps back from hash h
NthParent(h, i) ==
    IF i = 0 THEN h
    ELSE LET p == NthParent(h, i - 1)
         IN  IF p \in Headers THEN ParentHash(p) ELSE ZeroHash

\* i parent steps back from the last call's (hash, number): the hash there
\* is on the canonical chain; its header can be loaded
WalkCanonical(i) ==
    ReadCanonicalHash(lastOp.number - i) = NthParent(lastOp.hash, i)

WalkLoadable(i) ==
    GetHeader(headerCache, headerDb, NthParent(lastOp.hash, i), lastOp.number - i).header
        # Nil

\* the walk of the last call stops after i parent steps: the ancestor is
\* reached, the hash is canonical, the budget is used up, or the header
\* there cannot be loaded
WalkStopsAt(i) ==
    \/ i = lastOp.ancestor
    \/ WalkCanonical(i)
    \/ i = lastOp.budget
    \/ ~WalkLoadable(i)

\* the parent steps the last call took
StepsTaken ==
    CHOOSE i \in 0..lastOp.ancestor :
        WalkStopsAt(i) /\ \A j \in 0..(i - 1) : ~WalkStopsAt(j)

\* the last call was GetAncestor with 2 <= ancestor <= number, starting on
\* a header that is stored and not canonical
NonCanonicalCall ==
    /\ AncestorCall
    /\ 2 <= lastOp.ancestor
    /\ lastOp.ancestor <= lastOp.number
    /\ ~WalkCanonical(0)
    /\ WalkLoadable(0)

\* the budget of the last call reached 0 before the walk reached a canonical
\* hash or the ancestor
BudgetReachedZero ==
    /\ lastOp.rbudget = 0
    /\ StepsTaken < lastOp.ancestor
    /\ ~WalkCanonical(StepsTaken)

\* C11 as claimed: when the budget reaches 0 before a canonical header and
\* before the ancestor is reached, GetAncestor returns (zero hash, 0) and the
\* budget is down by exactly the parent steps taken.
C11_BudgetExhaustedAsClaimed ==
    (NonCanonicalCall /\ BudgetReachedZero)
        => /\ lastOp.rhash = ZeroHash
           /\ lastOp.rnumber = 0
           /\ lastOp.budget - lastOp.rbudget = StepsTaken

\* C11 amended: the walk takes one parent step per unit of budget while the
\* headers load; when the budget reaches 0 before a canonical header and
\* before the ancestor is reached, GetAncestor returns (zero hash, 0); the
\* budget is down by the parent steps taken, and by one more when the walk
\* stopped at a header that could not be loaded.
C11_BudgetExhausted ==
    NonCanonicalCall
        => /\ BudgetReachedZero => (lastOp.rhash = ZeroHash /\ lastOp.rnumber = 0)
           /\ lastOp.budget - lastOp.rbudget =
                  IF /\ StepsTaken < lastOp.ancestor
                     /\ ~WalkCanonical(StepsTaken)
                     /\ StepsTaken < lastOp.budget
                  THEN StepsTaken + 1
                  ELSE StepsTaken

\* GetAncestor has used up a budget of 2 on two parent steps, every header
\* loaded, and returned (zero hash, 0)
C11_Witness ==
    /\ NonCanonicalCall /\ BudgetReachedZero
    /\ lastOp.budget = 2
    /\ StepsTaken = 2
    /\ WalkLoadable(1)
    /\ lastOp.rhash = ZeroHash /\ lastOp.rnumber = 0

----------------------------------------------------------------------------
(* GetBlockHashesFromHash and GetAncestorByLocation *)

\* the largest number of hashes asked of GetBlockHashesFromHash
MaxCount == 3

\* the number of Append calls explored before the walks
MaxWalkAppends == 1

RECURSIVE hashesLoop_appendsFirst(_, _, _, _, _, _)
\* the loop of GetBlockHashesFromHash appending the parent hash before the
\* parent is loaded
hashesLoop_appendsFirst(hcache, db, header, max, i, chain) ==
    IF i >= max
    THEN [chain |-> chain, hcache |-> hcache]
    ELSE LET next == ParentHash(header)
             g    == GetHeader(hcache, db, next, Dec(Number64(header)))
         IN  IF g.header = Nil
             THEN [chain |-> Append(chain, next), hcache |-> g.hcache]
             ELSE IF Number64(g.header) = 0
             THEN [chain |-> Append(chain, next), hcache |-> g.hcache]
             ELSE hashesLoop_appendsFirst(g.hcache, db, g.header, max, i + 1,
                                          Append(chain, next))

RECURSIVE hashesLoop(_, _, _, _, _, _)
\* the loop of GetBlockHashesFromHash: header is the header walked from, i
\* the loop counter, chain the hashes collected
hashesLoop(hcache, db, header, max, i, chain) ==
    IF i >= max
    THEN [chain |-> chain, hcache |-> hcache]
    ELSE LET next == ParentHash(header)
             g    == GetHeader(hcache, db, next, Dec(Number64(header)))
         IN  IF g.header = Nil
             THEN [chain |-> chain, hcache |-> g.hcache]
             ELSE IF Number64(g.header) = 0
             THEN [chain |-> Append(chain, next), hcache |-> g.hcache]
             ELSE hashesLoop(g.hcache, db, g.header, max, i + 1, Append(chain, next))

\* GetBlockHashesFromHash; the nil slice returned for an unknown hash is the
\* empty sequence
GetBlockHashesFromHash(ncache, hcache, db, hash, max) ==
    LET h == GetHeaderByHash(ncache, hcache, db, hash)
    IN  IF h.header = Nil
        THEN [chain |-> <<>>, ncache |-> h.ncache, hcache |-> h.hcache]
        ELSE LET w == hashesLoop(h.hcache, db, h.header, max, 0, <<>>)
             IN  [chain |-> w.chain, ncache |-> h.ncache, hcache |-> w.hcache]

CallGetBlockHashesFromHash(hash, max) ==
    /\ Running
    /\ LET r == GetBlockHashesFromHash(numberCache, headerCache, headerDb, hash, max)
       IN  /\ numberCache' = r.ncache
           /\ headerCache' = r.hcache
           /\ lastOp' = [Call("GetBlockHashesFromHash", hash, 0, 0, 0, "Ok", ZeroHash, 0, 0)
                          EXCEPT !.max = max, !.chain = r.chain]
    /\ UNCHANGED <<headerDb, canonical, heads, currentHeader, currentHeaderHash,
                   pc, appends>>
    /\ UNCHANGED <<chainHeadFeed, lockstep, setters, json>>

\* header.Location: the [region, zone] bytes of the chain the header is in
Location(h) ==
    CASE h = 1 -> <<1, 1>>
      [] h = 2 -> <<1, 1>>
      [] h = 3 -> <<1, 2>>
      [] h = 4 -> <<1, 2>>
      [] h = 5 -> <<1, 1>>
      [] h = 6 -> <<1, 2>>

\* the locations a caller may ask for; no header is at <<2, 1>>
Locations == { <<1, 1>>, <<1, 2>>, <<2, 1>> }

\* GetAncestorByLocation.  The guard after the first GetHeaderByHash is
\* header != nil: a header that was found returns the error, and a nil
\* header goes on to the loop condition, where header.Location dereferences
\* it.  The body of the loop is never reached.
GetAncestorByLocation(ncache, hcache, db, hash, location) ==
    LET h == GetHeaderByHash(ncache, hcache, db, hash)
    IN  IF h.header # Nil
        THEN [res |-> "error finding header by hash", header |-> Nil,
              ncache |-> h.ncache, hcache |-> h.hcache]
        ELSE [res |-> "panic", header |-> Nil,
              ncache |-> h.ncache, hcache |-> h.hcache]

CallGetAncestorByLocation(hash, location) ==
    /\ Running
    /\ LET r == GetAncestorByLocation(numberCache, headerCache, headerDb, hash, location)
       IN  /\ numberCache' = r.ncache
           /\ headerCache' = r.hcache
           /\ pc' = IF r.res = "panic" THEN "panic" ELSE pc
           /\ lastOp' = [Call("GetAncestorByLocation", hash, 0, 0, 0, r.res, r.header, 0, 0)
                          EXCEPT !.location = location]
    /\ UNCHANGED <<headerDb, canonical, heads, currentHeader, currentHeaderHash,
                   appends>>
    /\ UNCHANGED <<chainHeadFeed, lockstep, setters, json>>

\* the last call wrote to the store or built the engine
AfterWrite == lastOp.op \in {"NewHeaderChain", "Append"}

\* B or X is appended, accepted or rejected by the executor; then one walk
\* is made
NextWalk ==
    \/ \E header \in {3, 5}, execOk \in BOOLEAN :
           /\ AfterWrite
           /\ appends < MaxWalkAppends
           /\ CallAppend(header, TRUE, execOk)
    \/ \E hash \in Hashes, max \in 0..MaxCount :
           /\ AfterWrite
           /\ CallGetBlockHashesFromHash(hash, max)
    \/ \E hash \in Hashes, location \in Locations :
           /\ AfterWrite
           /\ CallGetAncestorByLocation(hash, location)

SpecWalk == InitAncestor /\ [][NextWalk]_vars

\* what GetHeader(hash, number) returns in the current state
HeaderNow(hash, number) == GetHeader(headerCache, headerDb, hash, number).header

\* the last call was GetBlockHashesFromHash
HashesCall == lastOp.op = "GetBlockHashesFromHash"

\* the header the i-th returned hash was taken from: the starting header,
\* then the headers of the returned hashes
WalkedFrom(i) == IF i = 1 THEN lastOp.hash ELSE lastOp.chain[i - 1]

\* C12: GetBlockHashesFromHash(h, k) returns at most k hashes; the first is
\* h's parent, each later one the parent of the one before it; every
\* returned hash is of a header that can be retrieved; no hash follows the
\* hash of a header of number 0, and fewer than k hashes are returned only
\* when the walk reached number 0 or a parent that is missing (or h itself
\* is not found).
C12_HashesFromHash ==
    HashesCall
        => LET c == lastOp.chain
               n == Len(lastOp.chain)
           IN  /\ n <= lastOp.max
               /\ HeaderByHashNow(lastOp.hash) = Nil => n = 0
               /\ \A i \in 1..n :
                      /\ c[i] = ParentHash(WalkedFrom(i))
                      /\ HeaderNow(c[i], Dec(Number64(WalkedFrom(i)))) = c[i]
                      /\ i < n => Number64(c[i]) # 0
               /\ (n < lastOp.max /\ HeaderByHashNow(lastOp.hash) # Nil)
                      => \/ n >= 1 /\ Number64(c[n]) = 0
                         \/ HeaderNow(ParentHash(WalkedFrom(n + 1)),
                                      Dec(Number64(WalkedFrom(n + 1)))) = Nil

\* asked for three hashes from B, GetBlockHashesFromHash has returned the
\* two hashes down to the genesis header
C12_Witness ==
    /\ HashesCall
    /\ lastOp.max = 3
    /\ lastOp.chain = <<2, 1>>

\* asked for hashes from a header whose parent is not stored,
\* GetBlockHashesFromHash has stopped at the first missing parent
C12_WitnessMissingParent ==
    /\ HashesCall
    /\ lastOp.max >= 1
    /\ HeaderByHashNow(lastOp.hash) # Nil
    /\ lastOp.hash # Genesis
    /\ lastOp.chain = <<>>

RECURSIVE FirstAtLocation(_, _)
\* walking back from hash along the parent hashes, the first header at
\* location; Nil when a header on the way cannot be fetched
FirstAtLocation(hash, location) ==
    IF HeaderByHashNow(hash) = Nil THEN Nil
    ELSE IF Location(hash) = location THEN hash
    ELSE FirstAtLocation(ParentHash(hash), location)

\* C13: GetAncestorByLocation(hash, location) returns an error when the
\* starting header cannot be fetched; otherwise it returns the first header
\* on the walk back along the parent hashes, the starting header included,
\* whose location is the requested one.
C13_AncestorByLocation ==
    lastOp.op = "GetAncestorByLocation"
        => /\ HeaderByHashNow(lastOp.hash) = Nil
                 => lastOp.res = "error finding header by hash"
           /\ FirstAtLocation(lastOp.hash, lastOp.location) # Nil
                 => /\ lastOp.res = "Ok"
                    /\ lastOp.rhash = FirstAtLocation(lastOp.hash, lastOp.location)

----------------------------------------------------------------------------
(* The reads through the caches, before and after Append *)

\* the number of Append calls explored between the reads
MaxCacheAppends == 1

CallHasHeader(hash, number) ==
    /\ Running
    /\ lastOp' = Call("HasHeader", hash, number, 0, 0,
                      IF HasHeader(numberCache, headerCache, headerDb, hash, number)
                      THEN "true" ELSE "false",
                      ZeroHash, 0, 0)
    /\ UNCHANGED <<headerDb, canonical, headerCache, numberCache, heads,
                   currentHeader, currentHeaderHash, pc, appends>>
    /\ UNCHANGED <<chainHeadFeed, lockstep, setters, json>>

\* the number a caller that knows the header passes along with its hash
OwnNumber(hash) == IF hash \in Headers THEN Number64(hash) ELSE 0

\* a read, then B or X appended (accepted or rejected by the executor), then
\* a read again
NextCache ==
    \/ \E header \in {3, 5}, execOk \in BOOLEAN :
           /\ appends < MaxCacheAppends
           /\ AfterWrite \/ appends = 0
           /\ CallAppend(header, TRUE, execOk)
    \/ \E hash \in Hashes : AfterWrite /\ CallGetBlockNumber(hash)
    \/ \E hash \in Hashes : AfterWrite /\ CallGetHeader(hash, OwnNumber(hash))
    \/ \E hash \in Hashes : AfterWrite /\ CallGetHeaderByHash(hash)
    \/ \E hash \in Hashes : AfterWrite /\ CallHasHeader(hash, OwnNumber(hash))

SpecCache == InitAncestor /\ [][NextCache]_vars

\* C14: for every header persisted in the store, GetBlockNumber of its hash
\* returns the header's number, whatever the number cache holds.
C14_BlockNumberOfStored ==
    \A h \in headerDb :
        GetBlockNumber(numberCache, headerDb, h).number = Number64(h)

\* GetBlockNumber has answered for a stored header out of the number cache,
\* which an earlier call filled before the Append
C14_Witness ==
    /\ lastOp.op = "GetBlockNumber"
    /\ appends >= 1
    /\ lastOp.hash \in headerDb
    /\ lastOp.hash # currentHeader
    /\ Contains(numberCache, lastOp.hash)
    /\ lastOp.rnumber = Number64(lastOp.hash)

\* C18: in every reachable state GetHeader, GetHeaderByHash, GetBlockNumber
\* and HasHeader, asked about a hash (with the number of its header), return
\* what they would return with the caches empty, and no cache holds an entry
\* for a header that is not in the store.
C18_CachesTransparent ==
    /\ \A hash \in Hashes :
           /\ GetBlockNumber(numberCache, headerDb, hash).number
                  = GetBlockNumber({}, headerDb, hash).number
           /\ GetHeaderByHash(numberCache, headerCache, headerDb, hash).header
                  = GetHeaderByHash({}, {}, headerDb, hash).header
           /\ GetHeader(headerCache, headerDb, hash, OwnNumber(hash)).header
                  = GetHeader({}, headerDb, hash, OwnNumber(hash)).header
           /\ HasHeader(numberCache, headerCache, headerDb, hash, OwnNumber(hash))
                  = HasHeader({}, {}, headerDb, hash, OwnNumber(hash))
    /\ headerCache \subseteq headerDb
    /\ \A e \in numberCache : e[1] \in headerDb

----------------------------------------------------------------------------
(* The head pointer *)

\* the number of Append calls explored between the SetCurrentHeader calls
MaxHeadAppends == 2

\* Append and SetCurrentHeader, one call at a time
NextHead ==
    \/ \E header \in Blocks, o \in Outcomes :
           /\ appends < MaxHeadAppends
           /\ CallAppend(header, o[1], o[2])
    \/ \E head \in Headers : SetCurrentHeader(head)

SpecHead == Init /\ [][NextHead]_vars

\* C15: when SetCurrentHeader(h) has returned, CurrentHeader() returns h,
\* the cached head hash is h's hash, and the head feed has been sent a head
\* event carrying h.
C15_SetCurrentHeaderPublishes ==
    lastOp.op = "SetCurrentHeader"
        => /\ currentHeader = lastOp.hash
           /\ currentHeaderHash = lastOp.hash
           /\ chainHeadFeed # <<>>
           /\ chainHeadFeed[Len(chainHeadFeed)] = lastOp.hash

\* the step changes what CurrentHeader() returns or the cached head hash
HeadChanges ==
    currentHeader' # currentHeader \/ currentHeaderHash' # currentHeaderHash

\* C16: no Append call, successful or failing, changes what CurrentHeader()
\* returns or the cached head hash; only SetCurrentHeader changes them.
C16_AppendKeepsHead ==
    [][/\ AppendStep => ~HeadChanges
       /\ HeadChanges => lastOp'.op = "SetCurrentHeader"]_vars

\* the head was set to C, and an Append that returned Ok and an Append that
\* failed have left it at C
C16_Witness ==
    /\ lastOp.op = "Append"
    /\ lastOp.res = "executor failed"
    /\ appends = 2
    /\ heads # <<>>
    /\ currentHeader = 4
    /\ currentHeaderHash = 4

----------------------------------------------------------------------------
(* Concurrent SetCurrentHeader calls.  SetCurrentHeader takes no lock: its *)
(* atomic store of currentHeader and its plain write of currentHeaderHash  *)
(* are two steps, and the steps of concurrent calls interleave.            *)

\* the number of Append calls explored beside the SetCurrentHeader calls
MaxConcurrentAppends == 1

\* a value of currentHeaderHash that is the hash of no header: bytes of two
\* hashes written by racing goroutines
TornHash == 9

\* hc.currentHeader.Store(head) of goroutine t
SetCurrentHeaderStore(t, head) ==
    /\ Running
    /\ setters[t].at = "returned"
    /\ currentHeader' = head
    /\ setters' = [setters EXCEPT ![t] = [at |-> "stored", head |-> head]]
    /\ UNCHANGED <<headerDb, canonical, headerCache, numberCache, heads,
                   currentHeaderHash, pc, appends, lastOp>>
    /\ UNCHANGED <<chainHeadFeed, lockstep, json>>

\* the values the write of currentHeaderHash by goroutine t can leave: its
\* own hash, or, when another goroutine is at the same unsynchronized write
\* (a data race on the 32-byte array), a mix of the two
hashWrites(t) ==
    {setters[t].head} \cup
        { TornHash : u \in { v \in Threads \ {t} :
                                 /\ setters[v].at = "stored"
                                 /\ setters[v].head # setters[t].head } }

\* hc.currentHeaderHash = head.Hash() of goroutine t, and its return
SetCurrentHeaderHash(t) ==
    /\ Running
    /\ setters[t].at = "stored"
    /\ \E written \in hashWrites(t) : currentHeaderHash' = written
    /\ setters' = [setters EXCEPT ![t] = Returned]
    /\ lastOp' = Call("SetCurrentHeader", setters[t].head, 0, 0, 0, "Ok", ZeroHash, 0, 0)
    /\ UNCHANGED <<headerDb, canonical, headerCache, numberCache, heads,
                   currentHeader, pc, appends>>
    /\ UNCHANGED <<chainHeadFeed, lockstep, json>>

NextConcurrent ==
    \/ \E t \in Threads, head \in Headers : SetCurrentHeaderStore(t, head)
    \/ \E t \in Threads : SetCurrentHeaderHash(t)
    \/ \E header \in {2, 3}, execOk \in BOOLEAN :
           /\ appends < MaxConcurrentAppends
           /\ CallAppend(header, TRUE, execOk)

SpecConcurrent == Init /\ [][NextConcurrent]_vars

\* C17: once every SetCurrentHeader call has returned, the cached head hash
\* is the hash of the header CurrentHeader() returns, whatever the
\* interleaving of the calls and of Append.
C17_HeadHashMatches ==
    (\A t \in Threads : setters[t].at = "returned")
        => currentHeaderHash = currentHeader

----------------------------------------------------------------------------
(* Header.MarshalJSON and Header.UnmarshalJSON (core/types).  A header is  *)
(* the record of its fields, the per-tier fields sequences of length       *)
(* HierarchyDepth.  A JSON document is the record of its members; a member *)
(* is null or holds the encoded items: hex digits for a quantity, two hex  *)
(* digits a byte for bytes and hashes.                                     *)

\* common.HierarchyDepth
HierarchyDepth == 3

Tiers == 1..HierarchyDepth

\* a nil slice, which json.Marshal writes as null and into which
\* json.Unmarshal turns null; and a slice that holds items
NilSlice == [null |-> TRUE, items |-> <<>>]

Slice(items) == [null |-> FALSE, items |-> items]

\* copy(dst, src): the first min(len(dst), len(src)) elements of src
\* overwrite those of dst; a nil dst stays nil
copy(dst, src) ==
    IF dst.null
    THEN dst
    ELSE Slice([i \in 1..Len(dst.items) |->
                    IF i <= Len(src) THEN src[i] ELSE dst.items[i]])

RECURSIVE HexDigits(_)
\* the hex digits of a quantity, most significant first, no leading zero
HexDigits(n) == IF n < 16 THEN <<n>> ELSE Append(HexDigits(n \div 16), n % 16)

RECURSIVE FromHexDigits(_)
FromHexDigits(d) ==
    IF Len(d) = 0 THEN 0
    ELSE 16 * FromHexDigits(SubSeq(d, 1, Len(d) - 1)) + d[Len(d)]

\* hexutil.Big and hexutil.Uint64: "0x" and the hex digits
EncodeQuantity(n) == [hex |-> HexDigits(n)]

DecodeQuantity(q) == FromHexDigits(q.hex)

\* common.Hash, common.Address, Bloom, BlockNonce: fixed width, here one
\* byte written as two hex digits
EncodeFixed(b) == [hex |-> <<b \div 16, b % 16>>]

DecodeFixed(q) == FromHexDigits(q.hex)

RECURSIVE BytesToHex(_)
\* hexutil.Bytes, common.Location: two hex digits a byte
BytesToHex(bytes) ==
    IF Len(bytes) = 0 THEN <<>>
    ELSE <<bytes[1] \div 16, bytes[1] % 16>> \o BytesToHex(Tail(bytes))

RECURSIVE HexToBytes(_)
HexToBytes(d) ==
    IF Len(d) = 0 THEN <<>>
    ELSE <<16 * d[1] + d[2]>> \o HexToBytes(SubSeq(d, 3, Len(d)))

EncodeBytes(bytes) == [hex |-> BytesToHex(bytes)]

DecodeBytes(q) == HexToBytes(q.hex)

\* the items of a slice of hashes, addresses or blooms, encoded
EncodeEach(s) == [i \in 1..Len(s) |-> EncodeFixed(s[i])]

\* h.Hash(): stands for the hash over the fields, which the decoder ignores
HeaderHash(h) == (h.parentHash[1] + h.number[1] + h.time) % 256

\* MarshalJSON: the five slices of big and uint64 values are made with
\* length HierarchyDepth and filled by the loop; the nine slices of hashes,
\* addresses and blooms are left nil and copy writes nothing into them
MarshalJSON(h) ==
    [parentHash          |-> copy(NilSlice, EncodeEach(h.parentHash)),
     sha3Uncles          |-> copy(NilSlice, EncodeEach(h.uncleHash)),
     miner               |-> copy(NilSlice, EncodeEach(h.coinbase)),
     stateRoot           |-> copy(NilSlice, EncodeEach(h.root)),
     transactionsRoot    |-> copy(NilSlice, EncodeEach(h.txHash)),
     extTransactionsRoot |-> copy(NilSlice, EncodeEach(h.etxHash)),
     manifestHash        |-> copy(NilSlice, EncodeEach(h.manifestHash)),
     receiptsRoot        |-> copy(NilSlice, EncodeEach(h.receiptHash)),
     logsBloom           |-> copy(NilSlice, EncodeEach(h.bloom)),
     difficulty          |-> Slice([i \in Tiers |-> EncodeQuantity(h.difficulty[i])]),
     number              |-> Slice([i \in Tiers |-> EncodeQuantity(h.number[i])]),
     gasLimit            |-> Slice([i \in Tiers |-> EncodeQuantity(h.gasLimit[i])]),
     gasUsed             |-> Slice([i \in Tiers |-> EncodeQuantity(h.gasUsed[i])]),
     baseFeePerGas       |-> Slice([i \in Tiers |-> EncodeQuantity(h.baseFee[i])]),
     location            |-> EncodeBytes(h.location),
     timestamp           |-> EncodeQuantity(h.time),
     extraData           |-> Slice(EncodeBytes(h.extra).hex),
     nonce               |-> EncodeFixed(h.nonce),
     hash                |-> EncodeFixed(HeaderHash(h))]

\* the document an encoder that writes every member makes of h
Document(h) ==
    [MarshalJSON(h) EXCEPT
        !.parentHash          = Slice(EncodeEach(h.parentHash)),
        !.sha3Uncles          = Slice(EncodeEach(h.uncleHash)),
        !.miner               = Slice(EncodeEach(h.coinbase)),
        !.stateRoot           = Slice(EncodeEach(h.root)),
        !.transactionsRoot    = Slice(EncodeEach(h.txHash)),
        !.extTransactionsRoot = Slice(EncodeEach(h.etxHash)),
        !.manifestHash        = Slice(EncodeEach(h.manifestHash)),
        !.receiptsRoot        = Slice(EncodeEach(h.receiptHash)),
        !.logsBloom           = Slice(EncodeEach(h.bloom))]

\* the first member UnmarshalJSON finds missing, in the order of its tests;
\* "" when none is.  A timestamp of 0 counts as missing.
missingField(dec) ==
    CASE dec.parentHash.null          -> "parentHash"
      [] dec.sha3Uncles.null          -> "sha3Uncles"
      [] dec.miner.null               -> "miner"
      [] dec.stateRoot.null           -> "stateRoot"
      [] dec.transactionsRoot.null    -> "transactionsRoot"
      [] dec.extTransactionsRoot.null -> "extTransactionsRoot"
      [] dec.manifestHash.null        -> "manifestHash"
      [] dec.receiptsRoot.null        -> "receiptsRoot"
      [] dec.logsBloom.null           -> "logsBloom"
      [] dec.difficulty.null          -> "difficulty"
      [] dec.number.null              -> "number"
      [] dec.gasLimit.null            -> "gasLimit"
      [] dec.gasUsed.null             -> "gasUsed"
      [] dec.baseFeePerGas.null       -> "baseFee"
      [] DecodeQuantity(dec.timestamp) = 0 -> "timestamp"
      [] dec.extraData.null           -> "extraData"
      [] OTHER                        -> ""

\* the per-tier members of a document
TierMembers ==
    {"parentHash", "sha3Uncles", "miner", "stateRoot", "transactionsRoot",
     "extTransactionsRoot", "manifestHash", "receiptsRoot", "logsBloom",
     "difficulty", "number", "gasLimit", "gasUsed", "baseFeePerGas"}

\* the header without fields, as UnmarshalJSON leaves it when it fails
\* before its first Set call
NoHeader == [time |-> 0]

\* UnmarshalJSON: err is "nil", the member reported missing, or "panic" when
\* the loop indexes a member shorter than HierarchyDepth
UnmarshalJSON(dec) ==
    IF missingField(dec) # ""
    THEN [err |-> missingField(dec), header |-> NoHeader]
    ELSE IF \E m \in TierMembers : Len(dec[m].items) < HierarchyDepth
    THEN [err |-> "panic", header |-> NoHeader]
    ELSE [err |-> "nil",
          header |->
            [parentHash   |-> [i \in Tiers |-> DecodeFixed(dec.parentHash.items[i])],
             uncleHash    |-> [i \in Tiers |-> DecodeFixed(dec.sha3Uncles.items[i])],
             coinbase     |-> [i \in Tiers |-> DecodeFixed(dec.miner.items[i])],
             root         |-> [i \in Tiers |-> DecodeFixed(dec.stateRoot.items[i])],
             txHash       |-> [i \in Tiers |-> DecodeFixed(dec.transactionsRoot.items[i])],
             etxHash      |-> [i \in Tiers |-> DecodeFixed(dec.extTransactionsRoot.items[i])],
             manifestHash |-> [i \in Tiers |-> DecodeFixed(dec.manifestHash.items[i])],
             receiptHash  |-> [i \in Tiers |-> DecodeFixed(dec.receiptsRoot.items[i])],
             bloom        |-> [i \in Tiers |-> DecodeFixed(dec.logsBloom.items[i])],
             difficulty   |-> [i \in Tiers |-> DecodeQuantity(dec.difficulty.items[i])],
             number       |-> [i \in Tiers |-> DecodeQuantity(dec.number.items[i])],
             gasLimit     |-> [i \in Tiers |-> DecodeQuantity(dec.gasLimit.items[i])],
             gasUsed      |-> [i \in Tiers |-> DecodeQuantity(dec.gasUsed.items[i])],
             baseFee      |-> [i \in Tiers |-> DecodeQuantity(dec.baseFeePerGas.items[i])],
             location     |-> DecodeBytes(dec.location),
             time         |-> DecodeQuantity(dec.timestamp),
             extra        |-> HexToBytes(dec.extraData.items),
             nonce        |-> DecodeFixed(dec.nonce)]]

\* the headers handed to MarshalJSON: parent hashes, numbers, timestamp and
\* extra data vary, the other fields are fixed and non-zero
JSONHeaders ==
    { [parentHash   |-> p,
       uncleHash    |-> [i \in Tiers |-> 16 + i],
       coinbase     |-> [i \in Tiers |-> 32 + i],
       root         |-> [i \in Tiers |-> 48 + i],
       txHash       |-> [i \in Tiers |-> 64 + i],
       etxHash      |-> [i \in Tiers |-> 80 + i],
       manifestHash |-> [i \in Tiers |-> 96 + i],
       receiptHash  |-> [i \in Tiers |-> 112 + i],
       bloom        |-> [i \in Tiers |-> 128 + i],
       difficulty   |-> [i \in Tiers |-> 1000 * i],
       number       |-> [i \in Tiers |-> n * i],
       gasLimit     |-> [i \in Tiers |-> 30000 + i],
       gasUsed      |-> [i \in Tiers |-> 21000 * i],
       baseFee      |-> [i \in Tiers |-> 7 + i],
       location     |-> <<1, 2>>,
       time         |-> t,
       extra        |-> x,
       nonce        |-> 66] :
      p \in [Tiers -> {0, 171}], n \in {0, 1, 4096},
      t \in {0, 1, 1700000000}, x \in { <<>>, <<222, 173>> } }

\* a header is handed to MarshalJSON, or a document that holds every member
\* arrives from elsewhere
InitJSON ==
    /\ NewHeaderChain(<<1>>, {}, ZeroHash)
    /\ \E h \in JSONHeaders :
           \/ json = [stage |-> "header", header |-> h]
           \/ json = [stage |-> "document", header |-> h, enc |-> Document(h),
                      from |-> "elsewhere"]

CallMarshalJSON ==
    /\ json.stage = "header"
    /\ json' = [stage |-> "document", header |-> json.header,
                enc |-> MarshalJSON(json.header), from |-> "MarshalJSON"]
    /\ UNCHANGED <<headerDb, canonical, headerCache, numberCache, heads,
                   currentHeader, currentHeaderHash, pc, appends, lastOp>>
    /\ UNCHANGED <<chainHeadFeed, lockstep, setters>>

CallUnmarshalJSON ==
    /\ json.stage = "document"
    /\ LET r == UnmarshalJSON(json.enc)
       IN  json' = [stage |-> "decoded", header |-> json.header, enc |-> json.enc,
                    from |-> json.from, err |-> r.err, dec |-> r.header]
    /\ UNCHANGED <<headerDb, canonical, headerCache, numberCache, heads,
                   currentHeader, currentHeaderHash, pc, appends, lastOp>>
    /\ UNCHANGED <<chainHeadFeed, lockstep, setters>>

NextJSON == CallMarshalJSON \/ CallUnmarshalJSON

SpecJSON == InitJSON /\ [][NextJSON]_vars

\* the output of MarshalJSON has been handed to UnmarshalJSON
RoundTrip == json.stage = "decoded" /\ json.from = "MarshalJSON"

\* C19: for every header with per-tier fields of length HierarchyDepth, a
\* timestamp of 0 included, UnmarshalJSON of the output of MarshalJSON
\* succeeds and yields a header equal to it in every field.
C19_JSONRoundTrip ==
    RoundTrip => (json.err = "nil" /\ json.dec = json.header)

----------------------------------------------------------------------------
(* The second loop of trimBranch, one iteration a step *)

\* one iteration of the second loop of trimBranch, run by the Append call
\* that is inside it.  The two stepped-back headers are assigned to
\* variables declared inside the loop body (oldHeader := ..., newBlock :=
\* ...), so oldHeader and newHeader are the same at the next iteration;
\* iterations counts the iterations modulo 2.
LockstepStep ==
    /\ pc = "loop"
    /\ IF lockstep.oldHeader = lockstep.newHeader
       THEN LET t == trim(headerCache, headerDb, lockstep.oldHeader, heads[1].header)
            IN  /\ headerDb' = t.db
                /\ headerCache' = t.hcache
                /\ heads' = pushHead(dequeue(heads), lastOp.hash, appends)
                /\ pc' = "idle"
                /\ lastOp' = [lastOp EXCEPT !.res = "Ok", !.trim = "ok"]
                /\ lockstep' = NoLockstep
       ELSE LET o == GetHeader(headerCache, headerDb, ParentHash(lockstep.oldHeader),
                               Dec(Number64(lockstep.oldHeader)))
                n == GetHeader(o.hcache, headerDb, ParentHash(lockstep.newHeader),
                               Dec(Number64(lockstep.newHeader)))
            IN  /\ IF o.header = Nil
                   THEN /\ headerCache' = o.hcache
                        /\ pc' = "idle"
                        /\ lastOp' = [lastOp EXCEPT !.res = "invalid old chain",
                                                    !.trim = "invalid old chain"]
                        /\ lockstep' = NoLockstep
                   ELSE IF n.header = Nil
                   THEN /\ headerCache' = n.hcache
                        /\ pc' = "idle"
                        /\ lastOp' = [lastOp EXCEPT !.res = "invalid new chain",
                                                    !.trim = "invalid new chain"]
                        /\ lockstep' = NoLockstep
                   ELSE /\ headerCache' = n.hcache
                        /\ lockstep' = [lockstep EXCEPT !.iterations = 1 - @]
                        /\ UNCHANGED <<pc, lastOp>>
                /\ UNCHANGED <<headerDb, heads>>
    /\ UNCHANGED <<canonical, numberCache, currentHeader, currentHeaderHash, appends>>
    /\ UNCHANGED <<chainHeadFeed, setters, json>>

\* Append calls the executor accepts, and the iterations of a call that is
\* in the second loop of trimBranch
NextFair ==
    \/ \E header \in {2, 3, 4, 5} : CallAppend(header, TRUE, TRUE)
    \/ LockstepStep

\* the goroutine inside Append keeps being scheduled
SpecFair == Init /\ [][NextFair]_vars /\ WF_vars(LockstepStep)

\* C20: every Append call returns: a call that is inside trimBranch, the
\* queue full and the oldest tip on another branch than the newest, comes
\* back with Ok or an error.
C20_AppendReturns == (pc = "loop") ~> (pc = "idle")

----------------------------------------------------------------------------
(* Properties of trimBranch and trim *)

\* GetHeader(hash, number) finds the header, with the header cache as it is
\* and the store db
Loadable(db, hash, number) == GetHeader(headerCache, db, hash, number).header # Nil

\* walking newHeader back to the height of oldHeader meets a parent that
\* cannot be loaded
EqualizeMissing(db, oldHeader, newHeader) ==
    \E i \in 1..(Number64(newHeader) - Number64(oldHeader)) :
        ~Loadable(db, NthParent(newHeader, i), Number64(newHeader) - i)

\* the tips are at one height and differ, and the parent of one of them
\* cannot be loaded
LockstepMissing(db, oldHeader, newHeader) ==
    LET level == NthParent(newHeader, Number64(newHeader) - Number64(oldHeader))
    IN  /\ ~EqualizeMissing(db, oldHeader, newHeader)
        /\ oldHeader # level
        /\ \/ ~Loadable(db, ParentHash(oldHeader), Dec(Number64(oldHeader)))
           \/ ~Loadable(db, ParentHash(level), Dec(Number64(level)))

\* the step is an Append call that runs trimBranch on the oldest and the
\* newest tip of the full queue
TrimBranchStep == AppendStep /\ lastOp'.trim # "none"

\* C21: when a parent header cannot be loaded while trimBranch aligns the
\* two tips, in the height equalization or in the lockstep walk, trimBranch
\* returns "invalid old chain" or "invalid new chain" and no header is
\* deleted from the store.
C21_MissingParentIsInvalidChain ==
    [][LET db1 == WriteHeader(headerDb, lastOp'.hash)
           old == heads[1].header
           new == heads[maxHeadsQueueLimit].header
       IN  (TrimBranchStep /\ (EqualizeMissing(db1, old, new)
                               \/ LockstepMissing(db1, old, new)))
               => /\ lastOp'.res \in TrimErrors
                  /\ headerDb' = db1]_vars

\* the part of C21 the code keeps: a parent missing in the lockstep walk
\* makes trimBranch return its error with the store as it was
LockstepMissingIsInvalidChain ==
    [][LET db1 == WriteHeader(headerDb, lastOp'.hash)
           old == heads[1].header
           new == heads[maxHeadsQueueLimit].header
       IN  (TrimBranchStep /\ LockstepMissing(db1, old, new))
               => /\ lastOp'.res \in TrimErrors
                  /\ headerDb' = db1]_vars

----------------------------------------------------------------------------
(* trim on its own: trim(commonHeader, startHeader) is applied to headers *)
(* of the database, before and after an Append.                           *)

\* the number of Append calls explored beside the trim calls
MaxTrimAppends == 1

\* trim(commonHeader, startHeader); the call records startHeader as hash,
\* commonHeader as ancestor, and as chain the headers handed to the
\* executor's Trim, in the order of the calls.  trim returns nil on every
\* path.
CallTrim(commonHeader, startHeader) ==
    /\ Running
    /\ LET t == trim(headerCache, headerDb, commonHeader, startHeader)
       IN  /\ headerDb' = t.db
           /\ headerCache' = t.hcache
           /\ lastOp' = [Call("trim", startHeader, 0, commonHeader, 0, "Ok", ZeroHash, 0, 0)
                          EXCEPT !.chain = t.trimmed]
    /\ UNCHANGED <<canonical, numberCache, heads, currentHeader, currentHeaderHash,
                   pc, appends>>
    /\ UNCHANGED <<chainHeadFeed, lockstep, setters, json>>

\* B or X is appended, accepted or rejected by the executor; headers are
\* read; a branch is trimmed before the Append, after it, or both
NextTrim ==
    \/ \E header \in {3, 5}, execOk \in BOOLEAN :
           /\ appends < MaxTrimAppends
           /\ AfterWrite
           /\ CallAppend(header, TRUE, execOk)
    \/ \E hash \in Headers : AfterWrite /\ CallGetHeader(hash, OwnNumber(hash))
    \/ \E commonHeader \in Headers, startHeader \in Headers :
           /\ lastOp.op # "trim"
           /\ CallTrim(commonHeader, startHeader)

SpecTrim == InitAncestor /\ [][NextTrim]_vars

\* the headers of a sequence
Range(s) == { s[i] : i \in 1..Len(s) }

\* the step is a call of trim
TrimStep == lastOp'.op = "trim"

\* C22: trim(common, start) deletes from the store and hands to the
\* executor's Trim exactly the headers on the parent path from start
\* (included) back to common (excluded), in that order; common is never
\* deleted; when a parent cannot be loaded before common is reached the walk
\* stops there, trim returns success and the headers walked stay deleted.
C22_TrimDeletesPath ==
    [][TrimStep =>
        LET start   == lastOp'.hash
            common  == lastOp'.ancestor
            trimmed == lastOp'.chain
            n       == Len(trimmed)
        IN  /\ lastOp'.res = "Ok"
            /\ headerDb' = headerDb \ Range(trimmed)
            /\ common \notin Range(trimmed)
            /\ common \in headerDb => common \in headerDb'
            /\ (start = common) <=> (n = 0)
            /\ n > 0 => trimmed[1] = start
            /\ \A i \in 2..n :
                   /\ trimmed[i] = ParentHash(trimmed[i - 1])
                   /\ Loadable(headerDb, trimmed[i], Dec(Number64(trimmed[i - 1])))
            /\ n > 0 =>
                   \/ ParentHash(trimmed[n]) = common
                   \/ ~Loadable(headerDb, ParentHash(trimmed[n]),
                                Dec(Number64(trimmed[n])))]_vars

\* trim has walked two or more headers back to the common header, which is
\* still in the store
C22_Witness ==
    /\ lastOp.op = "trim"
    /\ Len(lastOp.chain) >= 2
    /\ ParentHash(lastOp.chain[Len(lastOp.chain)]) = lastOp.ancestor
    /\ lastOp.ancestor \in headerDb
    /\ Range(lastOp.chain) \cap headerDb = {}

\* trim has stopped at a parent that could not be loaded, short of the
\* common header, and the headers walked are gone from the store
C22_WitnessMissingParent ==
    /\ lastOp.op = "trim"
    /\ Len(lastOp.chain) >= 1
    /\ ParentHash(lastOp.chain[Len(lastOp.chain)]) # lastOp.ancestor
    /\ lastOp.ancestor \in headerDb
    /\ Range(lastOp.chain) \cap headerDb = {}

----------------------------------------------------------------------------
(* Append along one chain: the genesis block and its descendants are      *)
(* handed to Append, so that the queue fills with the tips of one chain.  *)

\* the blocks of the chain G, A, B, C and of the fork X
NextChain ==
    \E header \in {1, 2, 3, 4, 5}, o \in Outcomes : CallAppend(header, o[1], o[2])

SpecChain == Init /\ [][NextChain]_vars

\* the sequence s without its k-th element
Without(s, k) == SubSeq(s, 1, k - 1) \o SubSeq(s, k + 1, Len(s))

\* the queue is full and its first tip is its last tip or an ancestor of it
SingleChain ==
    /\ Len(heads) = maxHeadsQueueLimit
    /\ heads[1].header \in Path(heads[maxHeadsQueueLimit].header)

\* C23: when the head queue is full and its oldest tip is the newest tip or
\* an ancestor of it, an Append(b) that returns Ok deletes no header from the
\* store (the store is the one before plus b), and the queue afterwards is
\* the queue before without its oldest tip, with b's header added.
C23_SingleChainAppend ==
    [][(AppendStep /\ SingleChain /\ lastOp'.res = "Ok") =>
        /\ headerDb' = WriteHeader(headerDb, lastOp'.hash)
        /\ Len(heads') = maxHeadsQueueLimit
        /\ \E k \in 1..maxHeadsQueueLimit :
               /\ heads'[k] = [header |-> lastOp'.hash, pushed |-> appends']
               /\ Without(heads', k) = Tail(heads)]_vars

\* the queue held the tips G, A, B of one chain, C was appended, and the
\* queue holds A, B, C with G still in the store
C23_Witness ==
    /\ lastOp.op = "Append"
    /\ lastOp.res = "Ok"
    /\ lastOp.trim = "ok"
    /\ lastOp.hash = 4
    /\ [i \in 1..Len(heads) |-> heads[i].header] = <<2, 3, 4>>
    /\ {1, 2, 3, 4} \subseteq headerDb

----------------------------------------------------------------------------
(* Append step by step.  headermu is held from the first statement to the *)
(* return, so the steps of two Append calls do not interleave; pc is      *)
(* "written" after batch.Write and "executed" after the executor's Append.*)
(* The call in progress is lastOp, with res "running"; its effects are    *)
(* the steps it has completed, in order.                                  *)

\* the number of Append calls explored step by step
MaxOrderAppends == 4

\* lines 145-149: the header is written through a batch
AppendWrite(header, batchOk) ==
    /\ pc = "idle"
    /\ appends < MaxOrderAppends
    /\ appends' = appends + 1
    /\ IF batchOk
       THEN /\ headerDb' = WriteHeader(headerDb, header)
            /\ pc' = "written"
            /\ lastOp' = [Call("Append", header, 0, 0, 0, "running", ZeroHash, 0, 0)
                           EXCEPT !.effects = <<"store">>]
       ELSE /\ lastOp' = Call("Append", header, 0, 0, 0, "batch write failed",
                              ZeroHash, 0, 0)
            /\ UNCHANGED <<headerDb, pc>>
    /\ UNCHANGED <<canonical, headerCache, numberCache, heads, currentHeader,
                   currentHeaderHash>>
    /\ UNCHANGED <<chainHeadFeed, lockstep, setters, json>>

\* lines 152-156: the executor's Append, and the delete when it fails
AppendExecute(execOk) ==
    /\ pc = "written"
    /\ IF execOk
       THEN /\ pc' = "executed"
            /\ lastOp' = [lastOp EXCEPT !.effects = Append(@, "executor")]
            /\ UNCHANGED headerDb
       ELSE /\ headerDb' = DeleteHeader(headerDb, lastOp.hash, Number64(lastOp.hash))
            /\ pc' = "idle"
            /\ lastOp' = [lastOp EXCEPT !.res = "executor failed",
                                        !.effects = Append(@, "executor")]
    /\ UNCHANGED <<canonical, headerCache, numberCache, heads, currentHeader,
                   currentHeaderHash, appends>>
    /\ UNCHANGED <<chainHeadFeed, lockstep, setters, json>>

\* lines 158-180: trimBranch and the dequeue on a full queue, the push, the
\* sort and the return; nothing is sent on chainHeadFeed
AppendEnqueue ==
    /\ pc = "executed"
    /\ LET r == enqueue(heads, headerCache, headerDb, lastOp.hash, appends)
       IN  /\ headerDb' = r.db
           /\ headerCache' = r.hcache
           /\ heads' = r.heads
           /\ pc' = IF r.res \in {"panic", "loop"} THEN r.res ELSE "idle"
           /\ lastOp' = [lastOp EXCEPT !.res = r.res, !.trim = r.trim,
                             !.effects = IF r.res = "Ok" THEN Append(@, "queue") ELSE @]
           /\ lockstep' = IF r.res = "loop"
                          THEN secondLoop(r.hcache, r.db, heads[1].header,
                                          heads[maxHeadsQueueLimit].header)
                          ELSE lockstep
    /\ UNCHANGED <<canonical, numberCache, currentHeader, currentHeaderHash, appends>>
    /\ UNCHANGED <<chainHeadFeed, setters, json>>

NextOrder ==
    \/ \E header \in Blocks, batchOk \in BOOLEAN : AppendWrite(header, batchOk)
    \/ \E execOk \in BOOLEAN : AppendExecute(execOk)
    \/ AppendEnqueue

SpecOrder == Init /\ [][NextOrder]_vars

\* an Append call has returned Ok
AppendedOk == lastOp.op = "Append" /\ lastOp.res = "Ok"

\* C24: within one successful Append the header batch is committed to the
\* store, then the executor's Append is invoked, then the head queue is
\* updated, then the head is published on the head feed, each step after
\* the one before it has completed.
C24_AppendOrder ==
    AppendedOk
        => /\ lastOp.effects = <<"store", "executor", "queue">>
           /\ chainHeadFeed # <<>>
           /\ chainHeadFeed[Len(chainHeadFeed)] = lastOp.hash

\* the order the code keeps: the store, the executor, the queue; and the
\* queue changes only in the step after the executor has accepted the block
AppendOrderWithoutFeed ==
    /\ AppendedOk => lastOp.effects = <<"store", "executor", "queue">>
    /\ pc = "written" => lastOp.hash \in headerDb /\ lastOp.effects = <<"store">>
    /\ pc = "executed" => lastOp.hash \in headerDb
                          /\ lastOp.effects = <<"store", "executor">>

\* the queue changes only in the step that follows the executor's Append
QueueAfterExecutor == [][heads' # heads => pc = "executed"]_vars

----------------------------------------------------------------------------
(* The error paths of Append *)

\* the errors Append returns: of batch.Write, of the executor's Append, of
\* trimBranch
AppendErrors == {"batch write failed", "executor failed"} \cup TrimErrors

\* C25: whenever Append(b) returns an error (batch commit failure, executor
\* failure, or trimBranch failure on a full queue), the header store and
\* the head queue are the same as before the call.
C25_AppendAllOrNothing ==
    [][(AppendStep /\ lastOp'.res \in AppendErrors)
           => /\ headerDb' = headerDb
              /\ heads' = heads]_vars

\* the error paths that do restore the state: a failed batch write, and a
\* rejection by the executor of a block whose header was not in the store
\* before the call; the queue is restored on every error path
AppendErrorsRestoring ==
    [][(AppendStep /\ lastOp'.res \in AppendErrors)
           => /\ heads' = heads
              /\ lastOp'.res = "batch write failed" => headerDb' = headerDb
              /\ (lastOp'.res = "executor failed" /\ lastOp'.hash \notin headerDb)
                     => headerDb' = headerDb]_vars

\* the error path that restores nothing: when trimBranch fails on a full
\* queue, the header written by the batch stays in the store
TrimErrorLeavesHeader ==
    [][(AppendStep /\ lastOp'.res \in TrimErrors)
           => headerDb' = WriteHeader(headerDb, lastOp'.hash)]_vars
====
